---- MODULE Spec2Model ----
(***************************************************************************)
(* Subset construction of src/script.js: convertNFAtoDFA, epsilonClosure   *)
(* and stateSetToString.                                                   *)
(*                                                                         *)
(* A state identifier is a JavaScript string, modelled as a sequence of    *)
(* one-character strings, so that the default Array.prototype.sort order   *)
(* (UTF-16 code units) and the join with "," are computed, not assumed.    *)
(* An alphabet symbol is never formatted and stays an atomic string; the   *)
(* empty string "" is the epsilon label.                                   *)
(***************************************************************************)
EXTENDS Integers, Sequences, FiniteSets, TLC

VARIABLES nfa, pc, dfaStates, dfaTransitions, dfaAcceptStates, dfaQueue,
          startStateKey, currentDfaState, symIdx, nextNfaStates,
          nextDfaState, dfa

vars == <<nfa, pc, dfaStates, dfaTransitions, dfaAcceptStates, dfaQueue,
          startStateKey, currentDfaState, symIdx, nextNfaStates,
          nextDfaState, dfa>>

----------------------------------------------------------------------------
(* Bounds of the model *)

\* the total number of destinations over all transition lists of an input NFA
MaxEdges == 2

\* the length of the input words acceptance is compared on
MaxWordLen == 3

\* the length of the state lists epsilonClosure is tried on directly
MaxInputLen == 2

\* The state identifiers inputs are built from: "a", "b" and "a,b".
StateIds == { <<"a">>, <<"b">>, <<"a", ",", "b">> }

\* The input alphabet of every NFA tried.
AlphabetOfInputs == <<"x", "y">>

Epsilon == ""

Labels == {AlphabetOfInputs[i] : i \in DOMAIN AlphabetOfInputs} \cup {Epsilon}

----------------------------------------------------------------------------
(* JavaScript strings and arrays *)

\* The characters of the identifiers and keys of the model, and the strings
\* and arrays of strings over them.  The loops below are recursive functions
\* over these sets.
Chars == {",", "a", "b", "{", "}"}
Str == Seq(Chars)
Arr == Seq(Str)

\* UTF-16 code unit of a character
CharCode(c) ==
    CASE c = "," -> 44
      [] c = "a" -> 97
      [] c = "b" -> 98
      [] c = "{" -> 123
      [] c = "}" -> 125

\* s < t as JavaScript compares strings: by code units, a proper prefix first
StrLess[s \in Str, t \in Str] ==
    IF t = <<>> THEN FALSE
    ELSE IF s = <<>> THEN TRUE
    ELSE IF CharCode(Head(s)) # CharCode(Head(t))
         THEN CharCode(Head(s)) < CharCode(Head(t))
         ELSE StrLess[Tail(s), Tail(t)]

\* x put into the sorted array arr, after the elements it does not precede
InsertSorted[x \in Str, arr \in Arr] ==
    IF arr = <<>> THEN <<x>>
    ELSE IF StrLess[x, Head(arr)] THEN <<x>> \o arr
         ELSE <<Head(arr)>> \o InsertSorted[x, Tail(arr)]

SortFrom[arr \in Arr, acc \in Arr] ==
    IF arr = <<>> THEN acc ELSE SortFrom[Tail(arr), InsertSorted[Head(arr), acc]]

\* Array.prototype.sort() with the default comparator (stable, ascending)
ArraySort(arr) == SortFrom[arr, <<>>]

\* Array.prototype.join(",")
ArrayJoin[arr \in Arr] ==
    IF arr = <<>> THEN <<>>
    ELSE IF Len(arr) = 1 THEN arr[1]
         ELSE arr[1] \o <<",">> \o ArrayJoin[Tail(arr)]

\* the members of an array, as a set
Elems(arr) == {arr[i] : i \in DOMAIN arr}

\* stateSetToString: the array as states.sort() leaves it (the sort is in place)
SortedInPlace(states) == ArraySort(states)

\* stateSetToString: the returned key `{${states.sort().join(",")}}`
stateSetToString(states) == <<"{">> \o ArrayJoin[SortedInPlace(states)] \o <<"}">>

\* transitions[state]?.[symbol] || []
Lookup(transitions, state, symbol) ==
    IF state \in DOMAIN transitions /\ symbol \in DOMAIN transitions[state]
    THEN transitions[state][symbol]
    ELSE <<>>

\* new Set(states): the members in first-insertion order
Dedup[states \in Arr, acc \in Arr] ==
    IF states = <<>> THEN acc
    ELSE Dedup[Tail(states),
               IF Head(states) \in Elems(acc) THEN acc ELSE Append(acc, Head(states))]

\* a closure that forgets to push what it discovers: one epsilon step only
PushNothing(stack, nextState) == stack

\* closure.add(nextState); stack.push(nextState)
PushDiscovered(stack, nextState) == Append(stack, nextState)

\* the for loop of epsilonClosure over epsilonStates: the closure and the
\* stack it leaves
EpsilonFor[closure \in Arr, stack \in Arr, epsilonStates \in Arr] ==
    IF epsilonStates = <<>> THEN <<closure, stack>>
    ELSE IF Head(epsilonStates) \notin Elems(closure)
         THEN EpsilonFor[Append(closure, Head(epsilonStates)),
                         PushDiscovered(stack, Head(epsilonStates)),
                         Tail(epsilonStates)]
         ELSE EpsilonFor[closure, stack, Tail(epsilonStates)]

\* the while loop of epsilonClosure
EpsilonWhile(closure0, stack0, transitions) ==
    LET loop[closure \in Arr, stack \in Arr] ==
            IF Len(stack) = 0 THEN closure
            ELSE loop[EpsilonFor[closure, SubSeq(stack, 1, Len(stack) - 1),
                                 Lookup(transitions, stack[Len(stack)], Epsilon)]]
    IN  loop[closure0, stack0]

\* epsilonClosure(states, transitions): Array.from(closure)
epsilonClosure(states, transitions) ==
    EpsilonWhile(Dedup[states, <<>>], states, transitions)

\* currentNfaStates.flatMap((state) => nfa.transitions[state]?.[symbol] || [])
FlatMap(states0, transitions, symbol) ==
    LET map[states \in Arr] ==
            IF states = <<>> THEN <<>>
            ELSE Lookup(transitions, Head(states), symbol) \o map[Tail(states)]
    IN  map[states0]

----------------------------------------------------------------------------
(* The Map dfaStates: a sequence of entries in insertion order *)

MapKeys(m) == [i \in DOMAIN m |-> m[i].key]

\* dfaStates.has(key)
MapHas(m, key) == \E i \in DOMAIN m : m[i].key = key

\* dfaStates.get(key)
MapGet(m, key) == (CHOOSE e \in Elems(m) : e.key = key).states

\* dfaStates.set(key, states)
MapSet(m, key, states) ==
    IF MapHas(m, key)
    THEN [i \in DOMAIN m |-> IF m[i].key = key THEN [key |-> key, states |-> states]
                                              ELSE m[i]]
    ELSE Append(m, [key |-> key, states |-> states])

\* dfaAcceptStates.add(key)
SetAdd(s, key) == IF key \in Elems(s) THEN s ELSE Append(s, key)

----------------------------------------------------------------------------
(* The input NFAs *)

EdgeTriples == StateIds \X Labels \X StateIds

EdgeSeqs == UNION {[1..n -> EdgeTriples] : n \in 0..MaxEdges}

\* the destination list of (s, l): the destinations of its edges, in order
RECURSIVE DestList(_, _, _)
DestList(es, s, l) ==
    IF es = <<>> THEN <<>>
    ELSE (IF Head(es)[1] = s /\ Head(es)[2] = l THEN <<Head(es)[3]>> ELSE <<>>)
         \o DestList(Tail(es), s, l)

\* {state: {symbol: [nextStates]}}: an entry only where an edge exists
TransitionsOf(es) ==
    LET src == {es[i][1] : i \in DOMAIN es} IN
    [s \in src |->
        LET ls == {es[i][2] : i \in {j \in DOMAIN es : es[j][1] = s}} IN
        [l \in ls |-> DestList(es, s, l)]]

Mentioned(es, start) ==
    {start} \cup {es[i][1] : i \in DOMAIN es} \cup {es[i][3] : i \in DOMAIN es}

\* new NFA(states, alphabet, transitions, startState, acceptStates)
NFA(states, alphabet, transitions, startState, acceptStates) ==
    [states |-> states, alphabet |-> alphabet, transitions |-> transitions,
     startState |-> startState, acceptStates |-> acceptStates]

\* new DFA(states, alphabet, transitions, startState, acceptStates)
DFA(states, alphabet, transitions, startState, acceptStates) ==
    [states |-> states, alphabet |-> alphabet, transitions |-> transitions,
     startState |-> startState, acceptStates |-> acceptStates]

NoDfa == DFA(<<>>, <<>>, <<>>, <<>>, <<>>)

----------------------------------------------------------------------------
(* convertNFAtoDFA, statement by statement *)

NoNfa == NFA({}, <<>>, <<>>, <<>>, {})

\* before the call: no NFA is bound, none of the locals exists
Init ==
    /\ nfa = NoNfa
    /\ pc = "idle"
    /\ dfaStates = <<>>
    /\ dfaTransitions = <<>>
    /\ dfaAcceptStates = <<>>
    /\ dfaQueue = <<>>
    /\ startStateKey = <<>>
    /\ currentDfaState = <<>>
    /\ symIdx = 0
    /\ nextNfaStates = <<>>
    /\ nextDfaState = <<>>
    /\ dfa = NoDfa

\* lines 21-25: the function is entered with an NFA, its locals are empty.
\* The NFAs tried are the well-formed ones over StateIds with at most
\* MaxEdges destinations: every identifier the transitions and the start
\* state mention is a declared state, and acceptStates is a subset of them.
Call ==
    /\ pc = "idle"
    /\ \E es \in EdgeSeqs, start \in StateIds :
         \E acc \in SUBSET Mentioned(es, start) :
            nfa' = NFA(Mentioned(es, start), AlphabetOfInputs, TransitionsOf(es),
                       start, acc)
    /\ dfaStates' = <<>>
    /\ dfaTransitions' = <<>>
    /\ dfaAcceptStates' = <<>>
    /\ dfaQueue' = <<>>
    /\ pc' = "start"
    /\ UNCHANGED <<startStateKey, currentDfaState, symIdx, nextNfaStates,
                   nextDfaState, dfa>>

\* the sort reaching a destination list of the NFA: what sorting arr does
\* when arr is that list itself and not a copy of it
NfaAfterSortAliased(n, arr) ==
    LET t == n.transitions IN
    [n EXCEPT !.transitions =
        [s \in DOMAIN t |->
            [l \in DOMAIN t[s] |->
                IF t[s][l] = arr THEN ArraySort(arr) ELSE t[s][l]]]]

\* What the in-place sort of the working array arr does to the NFA: nothing,
\* since arr is a fresh array of Array.from (line 91), built from the fresh
\* array of flatMap (line 44) or from the literal [nfa.startState] (line 27).
NfaAfterSort(n, arr) == n

\* lines 27-30
Start ==
    /\ pc = "start"
    /\ LET startState == epsilonClosure(<<nfa.startState>>, nfa.transitions)
           key == stateSetToString(startState)
       IN  /\ startStateKey' = key
           /\ dfaQueue' = Append(dfaQueue, key)
           /\ dfaStates' = MapSet(dfaStates, key, SortedInPlace(startState))
           /\ nfa' = NfaAfterSort(nfa, startState)
    /\ pc' = "while"
    /\ UNCHANGED <<dfaTransitions, dfaAcceptStates, currentDfaState, symIdx,
                   nextNfaStates, nextDfaState, dfa>>

\* every in place of some
EveryAccepting(currentNfaStates, acceptStates) ==
    \A i \in DOMAIN currentNfaStates : currentNfaStates[i] \in acceptStates

\* currentNfaStates.some((state) => nfa.acceptStates.has(state))
SomeAccepting(currentNfaStates, acceptStates) ==
    \E i \in DOMAIN currentNfaStates : currentNfaStates[i] \in acceptStates

\* where control goes after the body of the for loop, or when it has no body
AfterSymbol(i, alphabet) == IF i > Len(alphabet) THEN "while" ELSE "for"

\* a queue read at its head and never shifted
NotShifted(queue) == queue

\* line 33: the queue that dfaQueue.shift() leaves
Shifted(queue) == Tail(queue)

\* lines 32-40: the loop test succeeds, one key is dequeued
Dequeue ==
    /\ pc = "while"
    /\ Len(dfaQueue) > 0
    /\ LET key == Head(dfaQueue)
           currentNfaStates == MapGet(dfaStates, key)
       IN  /\ currentDfaState' = key
           /\ dfaQueue' = Shifted(dfaQueue)
           /\ dfaAcceptStates' =
                IF SomeAccepting(currentNfaStates, nfa.acceptStates)
                THEN SetAdd(dfaAcceptStates, key)
                ELSE dfaAcceptStates
           /\ dfaTransitions' =
                [k \in DOMAIN dfaTransitions \cup {key} |->
                    IF k = key THEN <<>> ELSE dfaTransitions[k]]
    /\ symIdx' = 1
    /\ pc' = AfterSymbol(1, nfa.alphabet)
    /\ UNCHANGED <<nfa, dfaStates, startStateKey, nextNfaStates, nextDfaState, dfa>>

\* the move without its closure, as in the listing of the README (line 68)
NextOfUnclosed(currentNfaStates, transitions, symbol) ==
    FlatMap(currentNfaStates, transitions, symbol)

\* lines 43-48
NextOf(currentNfaStates, transitions, symbol) ==
    epsilonClosure(FlatMap(currentNfaStates, transitions, symbol), transitions)

\* the guard of line 50 left out
HasNextAlways(states) == TRUE

\* line 50: nextNfaStates.length > 0
HasNext(states) == Len(states) > 0

\* lines 42-50, the closed move is empty: nothing is recorded for the symbol
SymbolEmpty ==
    /\ pc = "for"
    /\ LET next == NextOf(MapGet(dfaStates, currentDfaState), nfa.transitions,
                          nfa.alphabet[symIdx])
       IN  /\ ~HasNext(next)
           /\ nextNfaStates' = next
    /\ symIdx' = symIdx + 1
    /\ pc' = AfterSymbol(symIdx + 1, nfa.alphabet)
    /\ UNCHANGED <<nfa, dfaStates, dfaTransitions, dfaAcceptStates, dfaQueue,
                   startStateKey, currentDfaState, nextDfaState, dfa>>

\* lines 42-51, the closed move is not empty: it is sorted and keyed
SymbolKey ==
    /\ pc = "for"
    /\ LET next == NextOf(MapGet(dfaStates, currentDfaState), nfa.transitions,
                          nfa.alphabet[symIdx])
       IN  /\ HasNext(next)
           /\ nextDfaState' = stateSetToString(next)
           /\ nextNfaStates' = SortedInPlace(next)
           /\ nfa' = NfaAfterSort(nfa, next)
    /\ pc' = "seen"
    /\ UNCHANGED <<dfaStates, dfaTransitions, dfaAcceptStates, dfaQueue,
                   startStateKey, currentDfaState, symIdx, dfa>>

\* the seen-check of line 53 left out
UnseenAlways(m, key) == TRUE

\* line 53: !dfaStates.has(nextDfaState)
Unseen(m, key) == ~MapHas(m, key)

\* lines 53-56
Discover ==
    /\ pc = "seen"
    /\ IF Unseen(dfaStates, nextDfaState)
       THEN /\ dfaQueue' = Append(dfaQueue, nextDfaState)
            /\ dfaStates' = MapSet(dfaStates, nextDfaState, nextNfaStates)
       ELSE UNCHANGED <<dfaQueue, dfaStates>>
    /\ pc' = "record"
    /\ UNCHANGED <<nfa, dfaTransitions, dfaAcceptStates, startStateKey,
                   currentDfaState, symIdx, nextNfaStates, nextDfaState, dfa>>

\* the current key stored in place of the next one
RecordedCurrent(current, next) == current

\* line 58: the key stored as the destination
RecordedTarget(current, next) == next

\* line 58
Record ==
    /\ pc = "record"
    /\ dfaTransitions' =
         [dfaTransitions EXCEPT ![currentDfaState] =
            [s \in DOMAIN @ \cup {nfa.alphabet[symIdx]} |->
                IF s = nfa.alphabet[symIdx]
                THEN RecordedTarget(currentDfaState, nextDfaState)
                ELSE @[s]]]
    /\ symIdx' = symIdx + 1
    /\ pc' = AfterSymbol(symIdx + 1, nfa.alphabet)
    /\ UNCHANGED <<nfa, dfaStates, dfaAcceptStates, dfaQueue, startStateKey,
                   currentDfaState, nextNfaStates, nextDfaState, dfa>>

\* lines 32, 63-72: the queue is empty, the DFA is built and returned
Return ==
    /\ pc = "while"
    /\ Len(dfaQueue) = 0
    /\ dfa' = DFA(MapKeys(dfaStates), nfa.alphabet, dfaTransitions,
                  startStateKey, dfaAcceptStates)
    /\ pc' = "done"
    /\ UNCHANGED <<nfa, dfaStates, dfaTransitions, dfaAcceptStates, dfaQueue,
                   startStateKey, currentDfaState, symIdx, nextNfaStates,
                   nextDfaState>>

\* the statements of convertNFAtoDFA
Steps == Start \/ Dequeue \/ SymbolEmpty \/ SymbolKey \/ Discover \/ Record \/ Return

Next == Call \/ Steps

Spec == Init /\ [][Next]_vars

\* once entered, the function runs on: a single thread with no suspension
\* point (nothing obliges a caller to call it)
FairSpec == Spec /\ WF_vars(Steps)

----------------------------------------------------------------------------
(* What the automata mean, stated on sets and independently of the code *)

\* C is closed under the empty-symbol transitions of T
EpsilonClosed(C, T) ==
    \A s \in C : Elems(Lookup(T, s, Epsilon)) \subseteq C

\* the least set of identifiers that contains S and is closed
LeastClosed(S, T) ==
    {q \in StateIds : \A C \in SUBSET StateIds :
                         (S \subseteq C /\ EpsilonClosed(C, T)) => q \in C}

\* the identifiers some member of S moves to on symbol
MoveSet(S, T, symbol) == UNION {Elems(Lookup(T, s, symbol)) : s \in S}

Words == UNION {[1..n -> Elems(AlphabetOfInputs)] : n \in 0..MaxWordLen}

RECURSIVE NfaRun(_, _, _)
\* the NFA states some run on w ends in, from the closed set S
NfaRun(n, S, w) ==
    IF w = <<>> THEN S
    ELSE NfaRun(n, LeastClosed(MoveSet(S, n.transitions, Head(w)), n.transitions),
                Tail(w))

NfaAccepts(n, w) ==
    NfaRun(n, LeastClosed({n.startState}, n.transitions), w) \cap n.acceptStates # {}

RECURSIVE DfaRun(_, _, _)
\* follow the recorded transitions from key k; a missing transition rejects
DfaRun(d, k, w) ==
    IF w = <<>> THEN k \in Elems(d.acceptStates)
    ELSE IF k \in DOMAIN d.transitions /\ Head(w) \in DOMAIN d.transitions[k]
         THEN DfaRun(d, d.transitions[k][Head(w)], Tail(w))
         ELSE FALSE

DfaAccepts(d, w) == DfaRun(d, d.startState, w)

\* some enumeration of a set, as an array
RECURSIVE ArrayOf(_)
ArrayOf(S) ==
    IF S = {} THEN <<>>
    ELSE LET x == CHOOSE y \in S : TRUE IN <<x>> \o ArrayOf(S \ {x})

\* the canonical key of a set of identifiers
CanonicalKey(S) == stateSetToString(ArrayOf(S))

RECURSIVE ReachedFrom(_, _)
\* the keys reached from the keys R by zero or more recorded transitions
ReachedFrom(R, trans) ==
    LET N == R \cup UNION {{trans[k][s] : s \in DOMAIN trans[k]} :
                             k \in R \cap DOMAIN trans}
    IN  IF N = R THEN R ELSE ReachedFrom(N, trans)

ClosureInputs == UNION {[1..n -> StateIds] : n \in 0..MaxInputLen}

NoDuplicates(arr) == \A i, j \in DOMAIN arr : arr[i] = arr[j] => i = j

\* the arrays of NFA states a conversion holds: the discovered sets, and the
\* closed move being keyed
ArisingArrays ==
    {dfaStates[i].states : i \in DOMAIN dfaStates}
    \cup (IF pc \in {"seen", "record"} THEN {nextNfaStates} ELSE {})

----------------------------------------------------------------------------
(* The claims *)

\* C1: the returned DFA accepts a word iff the NFA accepts it.
C1_LanguageEquivalence ==
    pc = "done" => \A w \in Words : DfaAccepts(dfa, w) <=> NfaAccepts(nfa, w)

C3_AlwaysReachable ==
    \A i \in DOMAIN dfaStates :
        dfaStates[i].key \in ReachedFrom({startStateKey}, dfaTransitions)

\* C3 as amended: every key of the discovery map is reached from the start
\* key by recorded transitions, at return and at every point of the loop
\* except between the insertion of a new key (line 55) and the recording of
\* the transition to it (line 58), where that key alone may not be; the
\* returned DFA's states are all reached from its start state.
C3_ReachableButPending ==
    /\ \A i \in DOMAIN dfaStates :
          \/ dfaStates[i].key \in ReachedFrom({startStateKey}, dfaTransitions)
          \/ pc = "record" /\ dfaStates[i].key = nextDfaState
    /\ pc = "done" =>
          Elems(dfa.states) \subseteq ReachedFrom({dfa.startState}, dfa.transitions)

C3_Witness ==
    /\ pc = "done"
    /\ Len(dfa.states) >= 3

\* C4: a key is pushed at most once (the queue never holds a key twice nor a
\* key already processed), and no two entries of the discovery map, nor of
\* the returned states, have the same key or the same underlying set.
C4_DiscoveredOnce ==
    /\ NoDuplicates(dfaQueue)
    /\ \A i \in DOMAIN dfaQueue :
          /\ dfaQueue[i] \notin DOMAIN dfaTransitions
          /\ MapHas(dfaStates, dfaQueue[i])
    /\ \A i, j \in DOMAIN dfaStates :
          (\/ dfaStates[i].key = dfaStates[j].key
           \/ Elems(dfaStates[i].states) = Elems(dfaStates[j].states)) => i = j
    /\ pc = "done" => NoDuplicates(dfa.states) /\ dfa.states = MapKeys(dfaStates)

\* a known key is met again and is not pushed
C4_Witness ==
    /\ pc = "record"
    /\ nextDfaState \in DOMAIN dfaTransitions
    /\ nextDfaState \notin Elems(dfaQueue)
    /\ nextDfaState # currentDfaState

\* C5: at return a discovered key is accepting iff its underlying set holds
\* a member of nfa.acceptStates.
C5_AcceptIffIntersects ==
    pc = "done" =>
        \A i \in DOMAIN dfaStates :
            dfaStates[i].key \in Elems(dfa.acceptStates)
              <=> Elems(dfaStates[i].states) \cap nfa.acceptStates # {}

C5_Witness ==
    /\ pc = "done"
    /\ \E i, j \in DOMAIN dfaStates :
         /\ dfaStates[i].key \in Elems(dfa.acceptStates)
         /\ dfaStates[j].key \notin Elems(dfa.acceptStates)
         /\ Len(dfaStates[i].states) >= 2
         /\ Elems(dfaStates[i].states) \cap nfa.acceptStates
              # Elems(dfaStates[i].states)

\* C6: epsilonClosure returns exactly the least set that contains its input
\* and is closed under empty-symbol transitions, each member once: for every
\* input list tried on the transitions of the call, and for the closures the
\* conversion itself took.
C6_ClosureIsLeastClosed ==
    /\ pc = "start" =>
          \A S \in ClosureInputs :
              LET c == epsilonClosure(S, nfa.transitions) IN
              /\ Elems(c) = LeastClosed(Elems(S), nfa.transitions)
              /\ NoDuplicates(c)
    /\ pc = "while" =>
          Elems(MapGet(dfaStates, startStateKey))
            = LeastClosed({nfa.startState}, nfa.transitions)
    /\ pc = "seen" =>
          Elems(nextNfaStates)
            = LeastClosed(MoveSet(Elems(MapGet(dfaStates, currentDfaState)),
                                  nfa.transitions, nfa.alphabet[symIdx]),
                          nfa.transitions)

\* the closure of the start state took two epsilon steps, the second from a
\* state with no entry for any symbol but epsilon
C6_Witness ==
    /\ pc = "while"
    /\ Len(MapGet(dfaStates, startStateKey)) = 3

\* C7: a conversion of a well-formed NFA (every identifier the start state
\* and the transitions mention is in nfa.states), once entered, returns, and
\* never holds more than 2^|nfa.states| - 1 keys.
C7_TerminatesWithinBound ==
    /\ (pc = "start") ~> (pc = "done")
    /\ [](Len(dfaStates) <= 2 ^ Cardinality(nfa.states) - 1)

\* a conversion returned with as many keys as the bound allows, after
\* meeting a known key again
C7_Witness ==
    /\ pc = "done"
    /\ Len(dfa.states) = 2 ^ Cardinality(nfa.states) - 1
    /\ "x" \in DOMAIN dfa.transitions[dfa.states[1]]

C10_KeyIffSameSet ==
    \A A, B \in ArisingArrays :
        stateSetToString(A) = stateSetToString(B) <=> Elems(A) = Elems(B)

====
